---- MODULE Spec2Model ----
(***************************************************************************)
(* A model of the two React views of the repository:                       *)
(*   - DocumentChatbot (src/src/components/DocumentChatbot.tsx): the form, *)
(*     handleSubmit, processQuery and the pure formatter formatResponse;   *)
(*   - DocumentManager (src/src/Zero.tsx): authentication, the document    *)
(*     list, the upload loop and the details view.                         *)
(*                                                                         *)
(* JavaScript strings are modelled as sequences of string fragments, and   *)
(* string concatenation as \o.  A query is a sequence of one-character     *)
(* fragments, so that toLowerCase, includes and trim are computed          *)
(* character by character.                                                 *)
(***************************************************************************)
EXTENDS Integers, Sequences, FiniteSets, TLC

VARIABLES
    \* formatResponse, applied as a pure function
    fArgs, fRes, fDone,
    \* DocumentChatbot
    client, messages, input, isLoading, calls, now, lastEvent,
    \* DocumentManager and the document-index service it calls
    state, service, loads, uploads, views, started, lastOp

fmtVars  == <<fArgs, fRes, fDone>>
chatVars == <<client, messages, input, isLoading, calls, now, lastEvent>>
conVars  == <<state, service, loads, uploads, views, started, lastOp>>
vars     == <<fmtVars, chatVars, conVars>>

----------------------------------------------------------------------------
(* Bounds of the model *)

MaxDocs == 3
MaxSnippets == 2
MaxPages == 1
MaxSubmits == 2
MaxClock == 2
MaxOps == 4

----------------------------------------------------------------------------
(* Strings *)

Upper == <<"S", "D", "A", "P">>
Lower == <<"s", "d", "a", "p">>

\* String.prototype.toLowerCase on one character
LowerChar(c) ==
    IF \E i \in DOMAIN Upper : Upper[i] = c
    THEN Lower[CHOOSE i \in DOMAIN Upper : Upper[i] = c]
    ELSE c

toLowerCase(s) == [i \in DOMAIN s |-> LowerChar(s[i])]

\* String.prototype.includes: sub occurs in s as a contiguous substring
includes(s, sub) ==
    \E i \in 0..(Len(s) - Len(sub)) :
        \A j \in 1..Len(sub) : s[i + j] = sub[j]

IsSpace(c) == c = " "

\* String.prototype.trim
trim(s) ==
    IF \A i \in DOMAIN s : IsSpace(s[i])
    THEN <<>>
    ELSE LET first == CHOOSE i \in DOMAIN s :
                          ~IsSpace(s[i]) /\ \A j \in 1..(i - 1) : IsSpace(s[j])
             last  == CHOOSE i \in DOMAIN s :
                          ~IsSpace(s[i]) /\ \A j \in (i + 1)..Len(s) : IsSpace(s[j])
         IN  SubSeq(s, first, last)

\* the literals the code searches the query for
STR_show     == <<"s", "h", "o", "w">>
STR_document == <<"d", "o", "c", "u", "m", "e", "n", "t">>
STR_all      == <<"a", "l", "l">>
STR_page     == <<"p", "a", "g", "e">>

\* the query texts the model submits
Q_ShowAll      == <<"s", "h", "o", "w", " ", "a", "l", "l">>
Q_ShowDocument == <<"S", "h", "o", "w", " ", "D", "o", "c", "u", "m", "e", "n", "t", "s">>
Q_ShowMe       == <<"s", "h", "o", "w", " ", "m", "e">>
Q_AllDocuments == <<"A", "l", "l", " ", "d", "o", "c", "u", "m", "e", "n", "t", "s">>
Q_Page         == <<"P", "a", "g", "e", " ", "2">>
Q_ShowAllPages == <<"s", "h", "o", "w", " ", "a", "l", "l", " ", "p", "a", "g", "e", "s">>
Q_How          == <<" ", "h", "o", "w", "?">>
Q_Small        == <<"s", "m", "a", "l", "l", " ", "s", "h", "o", "w", "s">>

Queries ==
    {Q_ShowAll, Q_ShowDocument, Q_ShowMe, Q_AllDocuments, Q_Page, Q_ShowAllPages,
     Q_How, Q_Small}

----------------------------------------------------------------------------
(* Retrieval results *)

\* an optional value: pages?: any[], snippet.page_span
Absent == [has |-> FALSE, val |-> <<>>]
Some(v) == [has |-> TRUE, val |-> v]

Paths == {"a", "b"}

Documents == [path : Paths]

\* score is in units of 1/10000, so that score * 100 has two decimals
Snippets ==
    { [content |-> "Y", path |-> "b", score |-> 8420, page_span |-> Some(<<1, 3>>)],
      [content |-> "Z", path |-> "a", score |-> 5005, page_span |-> Absent] }

Pages ==
    { [path |-> "a", page_index |-> 0, content |-> "X"],
      [path |-> "b", page_index |-> 2, content |-> "W"] }

SeqsUpTo(S, n) == UNION {[1..k -> S] : k \in 0..n}

----------------------------------------------------------------------------
(* formatResponse *)

NOT_FOUND ==
    <<"I couldn't find any relevant information. Please try rephrasing your question.">>
LISTING_HEADER == <<"Here are the available documents:\n\n">>
PAGES_HEADER   == <<"Here are the relevant pages:\n\n">>
SNIPPETS_HEADER == <<"Here's what I found:\n\n">>

\* the markdown code delimiter of the templates (a string of the model cannot hold it)
BACKTICK == "<backtick>"

\* OptLength with the emptiness test "!pages" in place of "!pages?.length"
OptLength_Presence(pages) == IF pages.has THEN 1 ELSE 0

\* pages?.length
OptLength(pages) == IF pages.has THEN Len(pages.val) ELSE 0

\* Array.from(new Set(xs)): the distinct elements in order of first insertion
RECURSIVE ArrayFromSet(_)
ArrayFromSet(xs) ==
    IF xs = <<>> THEN <<>>
    ELSE LET front == ArrayFromSet(SubSeq(xs, 1, Len(xs) - 1))
             x     == xs[Len(xs)]
         IN  IF \E i \in DOMAIN front : front[i] = x THEN front ELSE Append(front, x)

\* UniqueDocs without the Set: every document is listed
UniqueDocs_NoSet(documents) == [i \in DOMAIN documents |-> documents[i].path]

\* uniqueDocs of the listing branch
UniqueDocs(documents) == ArrayFromSet([i \in DOMAIN documents |-> documents[i].path])

\* (x).toFixed(1) of score * 100, score in units of 1/10000
ToFixed1(score) ==
    LET tenths == (score + 5) \div 10
    IN  <<ToString(tenths \div 10), ".", ToString(tenths % 10)>>

ListingLine(path, i) == <<ToString(i + 1), ". **", path, "**\n">>

PageBlock(page) ==
    <<"From document ", BACKTICK, page.path, BACKTICK, " (Page ", ToString(page.page_index + 1), "):\n",
      page.content, "\n\n">>

SnippetBlock(snippet) ==
    <<snippet.content, "\n\n">> \o
    IF snippet.page_span.has
    THEN <<"*Source: ", BACKTICK, snippet.path, BACKTICK, " (Pages ",
           ToString(snippet.page_span.val[1] + 1), "-",
           ToString(snippet.page_span.val[2] + 1), ", Relevance: ">>
         \o ToFixed1(snippet.score) \o <<"%)*\n\n">>
    ELSE <<"*Source: ", BACKTICK, snippet.path, BACKTICK, " (Relevance: ">>
         \o ToFixed1(snippet.score) \o <<"%)*\n\n">>

\* xs.forEach(x => response += Block(x, index))
RECURSIVE ListingLines(_, _)
ListingLines(paths, k) ==
    IF k = 0 THEN <<>>
    ELSE ListingLines(paths, k - 1) \o ListingLine(paths[k], k - 1)

RECURSIVE PageBlocks(_, _)
PageBlocks(pages, k) ==
    IF k = 0 THEN <<>> ELSE PageBlocks(pages, k - 1) \o PageBlock(pages[k])

RECURSIVE SnippetBlocks(_, _)
SnippetBlocks(snippets, k) ==
    IF k = 0 THEN <<>> ELSE SnippetBlocks(snippets, k - 1) \o SnippetBlock(snippets[k])

\* IsListingQuery with the query tested as typed, not lowercased
IsListingQuery_CaseSensitive(query) ==
    /\ includes(query, STR_show)
    /\ \/ includes(query, STR_document)
       \/ includes(query, STR_all)

\* the condition of the listing branch
IsListingQuery(query) ==
    /\ includes(toLowerCase(query), STR_show)
    /\ \/ includes(toLowerCase(query), STR_document)
       \/ includes(toLowerCase(query), STR_all)

formatResponse(a) ==
    IF Len(a.documents) = 0 /\ Len(a.snippets) = 0 /\ OptLength(a.pages) = 0
    THEN [content |-> NOT_FOUND, snippets |-> <<>>]
    ELSE LET response ==
                 IF IsListingQuery(a.query)
                 THEN LISTING_HEADER \o
                      ListingLines(UniqueDocs(a.documents), Len(UniqueDocs(a.documents)))
                 ELSE IF OptLength(a.pages) # 0
                 THEN PAGES_HEADER \o PageBlocks(a.pages.val, Len(a.pages.val))
                 ELSE SNIPPETS_HEADER \o SnippetBlocks(a.snippets, Len(a.snippets))
         IN  [content |-> response, snippets |-> a.snippets,
              documents |-> a.documents, pages |-> a.pages]

----------------------------------------------------------------------------
(* DocumentManager: the state object, the files and the service.             *)
(*                                                                           *)
(* state is the DocumentState object of useState (client is TRUE when        *)
(* state.client is a ZeroEntropy client; apiKey is only sent, never read     *)
(* back, and is left out).  service is the collection 'default' of the       *)
(* document-index service: whether it exists and the paths it holds.         *)
(* loads, uploads and views hold the invocations of loadDocuments,           *)
(* handleFileUpload and viewDocumentDetails that are suspended or over;      *)
(* started counts the user's operations (the events the handlers of the     *)
(* view have run for); lastOp names the call that failed in the last step,  *)
(* if one did.                                                               *)

AUTH_OK       == "Authentication successful!"
AUTH_FAILED   == "Authentication failed. Please check your API key."
LOAD_FAILED   == "Failed to load documents"
UPLOAD_OK     == "Files uploaded successfully!"
UPLOAD_FAILED == "Upload failed. Please try again."

DOCUMENTS_PREFIX == <<"d", "o", "c", "u", "m", "e", "n", "t", "s", "/">>

\* the files the user can select
FileNames == {<<"a">>, <<"P">>}
Files == [name : FileNames]

\* `documents/${file.name}`
PathOf(file) == DOCUMENTS_PREFIX \o file.name

\* index_status as the service reports it for a path
IndexStatus(path) == IF path = DOCUMENTS_PREFIX \o <<"a">> THEN "indexed" ELSE "indexing"

\* a Document of the service
DocumentOf(path) == [path |-> path, index_status |-> IndexStatus(path)]

SearchTexts == {<<>>, <<"p">>}
StatusFilters == {"all", "indexed"}

InitialState ==
    [client |-> FALSE, files |-> <<>>, documents |-> <<>>, selectedDocument |-> Absent,
     message |-> "", loading |-> FALSE,
     searchQuery |-> <<>>, sortOrder |-> "desc", filterStatus |-> "all"]

\* the collection as the view finds it: missing, empty, or holding a document
ServiceStates ==
    {[collection |-> FALSE, docs |-> {}], [collection |-> TRUE, docs |-> {}],
     [collection |-> TRUE, docs |-> {DOCUMENTS_PREFIX \o <<"a">>}]}

ConsoleMounted(services) ==
    /\ state = InitialState
    /\ service \in services
    /\ loads = <<>>
    /\ uploads = <<>>
    /\ views = <<>>
    /\ started = 0
    /\ lastOp = "none"

ConsoleIdle == ConsoleMounted({[collection |-> FALSE, docs |-> {}]})

----------------------------------------------------------------------------
(* formatResponse as a pure function: the arguments are drawn from bounded  *)
(* sets and the function is applied once.                                   *)

FormatArgs ==
    [documents : SeqsUpTo(Documents, MaxDocs),
     snippets  : SeqsUpTo(Snippets, MaxSnippets),
     pages     : {Absent} \cup {Some(p) : p \in SeqsUpTo(Pages, MaxPages)},
     query     : Queries]

NoResult == [content |-> <<>>, snippets |-> <<>>]

ChatIdle ==
    /\ client = FALSE
    /\ messages = <<>>
    /\ input = <<>>
    /\ isLoading = FALSE
    /\ calls = <<>>
    /\ now = 0
    /\ lastEvent = "none"

FormatInit ==
    /\ fArgs \in FormatArgs
    /\ fRes = NoResult
    /\ fDone = FALSE
    /\ ChatIdle
    /\ ConsoleIdle

Format ==
    /\ ~fDone
    /\ fRes' = formatResponse(fArgs)
    /\ fDone' = TRUE
    /\ UNCHANGED <<fArgs, chatVars, conVars>>

FormatNext == Format

FormatSpec == FormatInit /\ [][FormatNext]_vars

----------------------------------------------------------------------------
(* DocumentChatbot: the state, the form and handleSubmit / processQuery.     *)
(*                                                                           *)
(* client is TRUE when the client prop is a ZeroEntropy client and FALSE     *)
(* when it is null.  calls holds the processQuery invocations that are       *)
(* suspended at an await, each with the call it waits for.  now is the last  *)
(* reading of Date.now(); a reading is never below an earlier one.           *)
(* lastEvent names the handler that ran last.                                *)

GREETING ==
    <<"Hello! I can help you understand the ZeroEntropy documentation. Try asking questions like:\n\n",
      "* How do I install ZeroEntropy?\n",
      "* How do I create a collection?\n",
      "* What are the available query methods?\n",
      "* How do I handle document metadata?">>

ERROR_MESSAGE == <<"Sorry, I encountered an error while searching the documentation.">>

InitialMessages == <<[id |-> "0", role |-> "system", content |-> GREETING]>>

\* what the user types into the input field
Inputs == {<<>>, <<" ", " ">>, Q_ShowAll, Q_Page}

\* what the retrieval calls resolve with
DocumentResults == {<<>>, <<[path |-> "a"], [path |-> "b"], [path |-> "a"]>>}
SnippetResults ==
    {<<>>, <<[content |-> "Y", path |-> "b", score |-> 8420, page_span |-> Some(<<1, 3>>)]>>}
PageResults == {<<>>, <<[path |-> "a", page_index |-> 0, content |-> "X"]>>}
Errors == {"NetworkError", "RateLimitError"}

IdleArgs == [documents |-> <<>>, snippets |-> <<>>, pages |-> Absent, query |-> <<>>]

FormatIdle ==
    /\ fArgs = IdleArgs
    /\ fRes = NoResult
    /\ fDone = FALSE

\* the component as mounted at clock reading t0
Mounted(t0) ==
    /\ client \in BOOLEAN
    /\ messages = InitialMessages
    /\ input = <<>>
    /\ isLoading = FALSE
    /\ calls = <<>>
    /\ now = t0
    /\ lastEvent = "none"
    /\ FormatIdle
    /\ ConsoleIdle

ChatInit == Mounted(1)

\* Date.now(): a reading t, not below the last one
DateNow(t) == t >= now /\ t <= MaxClock

\* Date.now().toString()
UserMessageId(t) == ToString(t)

\* (Date.now() + 1).toString()
AssistantMessageId(t) == ToString(t + 1)

\* disabled={isLoading} of the input and of the submit button
ControlsDisabled == isLoading

\* handleSubmit without setIsLoading(true)
LoadingOnSubmit_Never == FALSE

\* the argument of setIsLoading at the start of a request
LoadingOnSubmit == TRUE

UserMessages == {i \in DOMAIN messages : messages[i].role = "user"}

\* onChange of the input field
ChangeInput(text) ==
    /\ ~ControlsDisabled
    /\ input' = text
    /\ lastEvent' = "change"
    /\ UNCHANGED <<client, messages, isLoading, calls, now, fmtVars, conVars>>

\* handleSubmit testing the input untrimmed
SubmitRejected_NoTrim == input = <<>> \/ ~client

\* the early return of handleSubmit
SubmitRejected == trim(input) = <<>> \/ ~client

\* onSubmit of the form: handleSubmit up to its await
HandleSubmit(t) ==
    /\ ~ControlsDisabled
    /\ lastEvent' = "submit"
    /\ IF SubmitRejected
       THEN UNCHANGED <<client, messages, input, isLoading, calls, now, fmtVars, conVars>>
       ELSE /\ Cardinality(UserMessages) < MaxSubmits
            /\ DateNow(t)
            /\ now' = t
            /\ messages' = Append(messages,
                   [id |-> UserMessageId(t), role |-> "user", content |-> input])
            /\ input' = <<>>
            /\ isLoading' = LoadingOnSubmit
            /\ calls' = Append(calls,
                   [query |-> input, pc |-> "topDocuments",
                    documents |-> <<>>, snippets |-> <<>>])
            /\ UNCHANGED <<client, fmtVars, conVars>>

\* the catch block reporting the error it caught
CatchResult_RawError(error, call) == [content |-> <<"Error: ", error>>, snippets |-> <<>>]

\* the object the catch block of processQuery returns
CatchResult(error, call) == [content |-> ERROR_MESSAGE, snippets |-> <<>>]

\* the rest of handleSubmit once processQuery has returned result
Finish(k, result, t) ==
    /\ DateNow(t)
    /\ now' = t
    /\ messages' = Append(messages,
           [id |-> AssistantMessageId(t), role |-> "assistant",
            content |-> result.content, snippets |-> result.snippets])
    /\ isLoading' = FALSE
    /\ calls' = [i \in 1..(Len(calls) - 1) |-> IF i < k THEN calls[i] ELSE calls[i + 1]]
    /\ UNCHANGED <<client, input, fmtVars, conVars>>

\* does processQuery request pages?
WantsPages(query) == includes(toLowerCase(query), STR_page)

\* topDocuments resolves: processQuery goes on to topSnippets
TopDocumentsResolves(k, results) ==
    /\ k \in DOMAIN calls
    /\ calls[k].pc = "topDocuments"
    /\ calls' = [calls EXCEPT ![k].documents = results, ![k].pc = "topSnippets"]
    /\ lastEvent' = "resolve"
    /\ UNCHANGED <<client, messages, input, isLoading, now, fmtVars, conVars>>

\* topSnippets resolves: processQuery goes on to topPages, or formats without pages
TopSnippetsResolves(k, results, t) ==
    /\ k \in DOMAIN calls
    /\ calls[k].pc = "topSnippets"
    /\ lastEvent' = "resolve"
    /\ IF WantsPages(calls[k].query)
       THEN /\ calls' = [calls EXCEPT ![k].snippets = results, ![k].pc = "topPages"]
            /\ t = now
            /\ UNCHANGED <<client, messages, input, isLoading, now, fmtVars, conVars>>
       ELSE Finish(k, formatResponse([documents |-> calls[k].documents,
                                      snippets |-> results,
                                      pages |-> Absent,
                                      query |-> calls[k].query]), t)

\* topPages resolves: processQuery formats with the pages
TopPagesResolves(k, results, t) ==
    /\ k \in DOMAIN calls
    /\ calls[k].pc = "topPages"
    /\ lastEvent' = "resolve"
    /\ Finish(k, formatResponse([documents |-> calls[k].documents,
                                 snippets |-> calls[k].snippets,
                                 pages |-> Some(results),
                                 query |-> calls[k].query]), t)

\* the awaited call rejects: the catch block of processQuery
RetrievalFails(k, error, t) ==
    /\ k \in DOMAIN calls
    /\ lastEvent' = "error"
    /\ Finish(k, CatchResult(error, calls[k]), t)

\* the clock readings a handler may see
Times == now..MaxClock

\* an await of processQuery settles and the continuation runs
Resolve ==
    \E k \in DOMAIN calls :
        \/ \E r \in DocumentResults : TopDocumentsResolves(k, r)
        \/ \E t \in Times : \E r \in SnippetResults : TopSnippetsResolves(k, r, t)
        \/ \E t \in Times : \E r \in PageResults : TopPagesResolves(k, r, t)
        \/ \E t \in Times : \E e \in Errors : RetrievalFails(k, e, t)

Next ==
    \/ \E text \in Inputs : ChangeInput(text)
    \/ \E t \in Times : HandleSubmit(t)
    \/ \E k \in DOMAIN calls : \E r \in DocumentResults : TopDocumentsResolves(k, r)
    \/ \E k \in DOMAIN calls, t \in Times : \E r \in SnippetResults : TopSnippetsResolves(k, r, t)
    \/ \E k \in DOMAIN calls, t \in Times : \E r \in PageResults : TopPagesResolves(k, r, t)
    \/ \E k \in DOMAIN calls, t \in Times : \E e \in Errors : RetrievalFails(k, e, t)

Spec == ChatInit /\ [][Next]_vars

\* The lifecycle of a request does not read the clock.  LiveSpec mounts the
\* component at the last reading the model distinguishes, so that every later
\* reading is that one, and states that a pending await of processQuery settles
\* (resolves or rejects) and its continuation runs.
LiveInit == Mounted(MaxClock)

LiveSpec == LiveInit /\ [][Next]_vars /\ WF_vars(Resolve)

----------------------------------------------------------------------------
(* DocumentManager: the handlers *)

\* the order of the characters under localeCompare: letters alphabetically, case
\* apart, after the punctuation
ALPHABET == <<"/", "a", "c", "d", "e", "m", "n", "o", "p", "s", "t", "u">>
Rank(c) == CHOOSE i \in DOMAIN ALPHABET : ALPHABET[i] = LowerChar(c)

\* a.localeCompare(b) < 0, > 0 or = 0 as -1, 1, 0: the first difference of the
\* letters decides, then the shorter string first, then lowercase before uppercase
RECURSIVE localeCompare(_, _)
localeCompare(a, b) ==
    LET n == IF Len(a) < Len(b) THEN Len(a) ELSE Len(b)
        diff == {i \in 1..n : Rank(a[i]) # Rank(b[i])}
        caseDiff == {i \in 1..n : a[i] # b[i]}
        Min(S) == CHOOSE i \in S : \A j \in S : i <= j
    IN  IF diff # {}
        THEN IF Rank(a[Min(diff)]) < Rank(b[Min(diff)]) THEN -1 ELSE 1
        ELSE IF Len(a) # Len(b) THEN (IF Len(a) < Len(b) THEN -1 ELSE 1)
        ELSE IF caseDiff = {} THEN 0
        ELSE IF LowerChar(a[Min(caseDiff)]) = a[Min(caseDiff)] THEN -1 ELSE 1

\* the search, status and sort settings a render holds
Settings(st) ==
    [searchQuery |-> st.searchQuery, sortOrder |-> st.sortOrder,
     filterStatus |-> st.filterStatus]

\* the filters of loadDocuments
Matches(doc, settings) ==
    /\ settings.searchQuery # <<>> =>
           includes(toLowerCase(doc.path), toLowerCase(settings.searchQuery))
    /\ settings.filterStatus # "all" => doc.index_status = settings.filterStatus

\* the comparator of filteredDocs.sort
Before(a, b, settings) ==
    LET comparison == localeCompare(a.path, b.path)
    IN  (IF settings.sortOrder = "asc" THEN comparison ELSE 0 - comparison) < 0

\* filteredDocs of loadDocuments for the documents the service answers with
FilteredDocs(docs, settings) ==
    LET kept == {d \in docs : Matches(d, settings)}
    IN  CHOOSE seq \in [1..Cardinality(kept) -> kept] :
            /\ \A d \in kept : \E i \in DOMAIN seq : seq[i] = d
            /\ \A i, j \in DOMAIN seq : i < j => Before(seq[i], seq[j], settings)

\* loadDocuments up to its await, called by owner (0: the effect; u: upload u)
\* one more operation of the user
UserEvent ==
    /\ started < MaxOps
    /\ started' = started + 1

LoadCall(settings, owner) == [settings |-> settings, upload |-> owner]

RemoveAt(seq, k) == [i \in 1..(Len(seq) - 1) |-> IF i < k THEN seq[i] ELSE seq[i + 1]]

\* useEffect on [client, searchQuery, sortOrder, filterStatus]: the render after
\* change calls loadDocuments, which sets loading and awaits getInfoList
RenderWithNewDeps(change) ==
    /\ state' = [change EXCEPT !.loading = TRUE]
    /\ loads' = Append(loads, LoadCall(Settings(change), 0))

\* handleAuthenticate: new ZeroEntropy(...) returns
AuthenticateSucceeds ==
    /\ UserEvent
    /\ RenderWithNewDeps([state EXCEPT !.client = TRUE, !.message = AUTH_OK])
    /\ lastOp' = "none"
    /\ UNCHANGED <<service, uploads, views>>
    /\ UNCHANGED <<fmtVars, chatVars>>

\* handleAuthenticate: new ZeroEntropy(...) throws
AuthenticateFails ==
    /\ UserEvent
    /\ state' = [state EXCEPT !.message = AUTH_FAILED]
    /\ lastOp' = "authenticate failed"
    /\ UNCHANGED <<service, loads, uploads, views>>
    /\ UNCHANGED <<fmtVars, chatVars>>

\* onChange of the search field
ChangeSearch(text) ==
    /\ UserEvent
    /\ state.client
    /\ text # state.searchQuery
    /\ RenderWithNewDeps([state EXCEPT !.searchQuery = text])
    /\ lastOp' = "none"
    /\ UNCHANGED <<service, uploads, views>>
    /\ UNCHANGED <<fmtVars, chatVars>>

\* onChange of the status select
ChangeFilter(status) ==
    /\ UserEvent
    /\ state.client
    /\ status # state.filterStatus
    /\ RenderWithNewDeps([state EXCEPT !.filterStatus = status])
    /\ lastOp' = "none"
    /\ UNCHANGED <<service, uploads, views>>
    /\ UNCHANGED <<fmtVars, chatVars>>

\* onClick of the sort button
ToggleSort ==
    /\ UserEvent
    /\ state.client
    /\ RenderWithNewDeps(
           [state EXCEPT !.sortOrder = IF state.sortOrder = "asc" THEN "desc" ELSE "asc"])
    /\ lastOp' = "none"
    /\ UNCHANGED <<service, uploads, views>>
    /\ UNCHANGED <<fmtVars, chatVars>>

\* the rest of handleFileUpload after await loadDocuments()
UploadCompletes(st) == [st EXCEPT !.files = <<>>, !.message = UPLOAD_OK, !.loading = FALSE]

\* loadDocuments returns to its caller with the state it has set
LoadReturns(k, st) ==
    /\ loads' = RemoveAt(loads, k)
    /\ IF loads[k].upload = 0
       THEN state' = st /\ UNCHANGED uploads
       ELSE /\ state' = UploadCompletes(st)
            /\ uploads' = [uploads EXCEPT ![loads[k].upload].pc = "done"]
    /\ UNCHANGED <<service, views>>

\* getInfoList resolves: the try block of loadDocuments
GetInfoListResolves(k) ==
    /\ k \in DOMAIN loads
    /\ LoadReturns(k, [state EXCEPT
           !.documents = FilteredDocs({DocumentOf(p) : p \in service.docs}, loads[k].settings),
           !.loading = FALSE])
    /\ lastOp' = "none"
    /\ UNCHANGED <<started, fmtVars, chatVars>>

\* getInfoList rejects: the catch block of loadDocuments
GetInfoListFails(k) ==
    /\ k \in DOMAIN loads
    /\ LoadReturns(k, [state EXCEPT !.message = LOAD_FAILED, !.loading = FALSE])
    /\ lastOp' = "load failed"
    /\ UNCHANGED <<started, fmtVars, chatVars>>

\* the file selections: distinct files, in the order selected
FileSelections ==
    {fs \in SeqsUpTo(Files, Cardinality(Files)) :
        \A i, j \in DOMAIN fs : i # j => fs[i] # fs[j]}

\* onChange of the file input
SelectFiles(fs) ==
    /\ UserEvent
    /\ state.client
    /\ fs # state.files
    /\ state' = [state EXCEPT !.files = fs]
    /\ lastOp' = "none"
    /\ UNCHANGED <<service, loads, uploads, views>>
    /\ UNCHANGED <<fmtVars, chatVars>>

\* disabled={state.loading || state.files.length === 0} of the upload button
UploadDisabled == state.loading \/ Len(state.files) = 0

\* onClick of the upload button: handleFileUpload up to the fetch of add-collection
UploadClick ==
    /\ UserEvent
    /\ state.client
    /\ ~UploadDisabled
    /\ state' = [state EXCEPT !.loading = TRUE]
    /\ uploads' = Append(uploads,
           [files |-> state.files, settings |-> Settings(state), pc |-> "create",
            idx |-> 0, creation |-> "pending",
            encoded |-> <<>>, started |-> <<>>, completed |-> <<>>])
    /\ lastOp' = "none"
    /\ UNCHANGED <<service, loads, views>>
    /\ UNCHANGED <<fmtVars, chatVars>>

\* what the add-collection request can end with
CreationOutcomes ==
    (IF service.collection THEN {"already exists"} ELSE {"created"})
        \cup {"error", "rejected"}

\* the promise chain without "else if (response.error) throw"
CreationSucceeds_NoThrow(outcome) == outcome # "rejected"

\* does the promise chain on the add-collection request resolve?
CreationSucceeds(outcome) == outcome \in {"created", "already exists"}

\* the catch block of handleFileUpload
UploadCatch(u) ==
    /\ state' = [state EXCEPT !.message = UPLOAD_FAILED, !.loading = FALSE]
    /\ uploads' = [uploads EXCEPT ![u].pc = "failed"]

\* the FileReader promise of file i is created
StartEncode(upload, i) ==
    [upload EXCEPT !.pc = "encode", !.idx = i,
                   !.encoded = Append(@, PathOf(upload.files[i]))]

\* the add-collection request ends
CreateCollectionEnds(u, outcome) ==
    /\ u \in DOMAIN uploads
    /\ uploads[u].pc = "create"
    /\ outcome \in CreationOutcomes
    /\ IF CreationSucceeds(outcome)
       THEN /\ uploads' = [uploads EXCEPT
                   ![u] = StartEncode([uploads[u] EXCEPT !.creation = outcome], 1)]
            /\ service' = [service EXCEPT !.collection = TRUE]
            /\ lastOp' = "none"
            /\ UNCHANGED state
       ELSE /\ state' = [state EXCEPT !.message = UPLOAD_FAILED, !.loading = FALSE]
            /\ uploads' = [uploads EXCEPT ![u].pc = "failed", ![u].creation = outcome]
            /\ lastOp' = "create failed"
            /\ UNCHANGED service
    /\ UNCHANGED <<loads, views>>
    /\ UNCHANGED <<started, fmtVars, chatVars>>

\* reader.onload with a result: documents.add is called
EncodeSucceeds(u) ==
    /\ u \in DOMAIN uploads
    /\ uploads[u].pc = "encode"
    /\ uploads' = [uploads EXCEPT
           ![u].pc = "add",
           ![u].started = Append(@, PathOf(uploads[u].files[uploads[u].idx]))]
    /\ lastOp' = "none"
    /\ UNCHANGED <<state, service, loads, views>>
    /\ UNCHANGED <<started, fmtVars, chatVars>>

\* reader.onerror, or reader.onload without a result
EncodeFails(u) ==
    /\ u \in DOMAIN uploads
    /\ uploads[u].pc = "encode"
    /\ UploadCatch(u)
    /\ lastOp' = "encode failed"
    /\ UNCHANGED <<service, loads, views>>
    /\ UNCHANGED <<started, fmtVars, chatVars>>

\* documents.add resolves: the loop goes on to the next file, or to loadDocuments
AddResolves(u) ==
    /\ u \in DOMAIN uploads
    /\ uploads[u].pc = "add"
    /\ LET upload == uploads[u]
           added == [upload EXCEPT
                         !.completed = Append(@, PathOf(upload.files[upload.idx]))]
       IN  /\ service' = [service EXCEPT
                  !.docs = @ \cup {PathOf(upload.files[upload.idx])}]
           /\ IF upload.idx < Len(upload.files)
              THEN /\ uploads' = [uploads EXCEPT ![u] = StartEncode(added, upload.idx + 1)]
                   /\ UNCHANGED <<state, loads>>
              ELSE /\ uploads' = [uploads EXCEPT ![u] = [added EXCEPT !.pc = "reload"]]
                   /\ state' = [state EXCEPT !.loading = TRUE]
                   /\ loads' = Append(loads, LoadCall(upload.settings, u))
    /\ lastOp' = "none"
    /\ UNCHANGED views
    /\ UNCHANGED <<started, fmtVars, chatVars>>

\* documents.add rejects
AddFails(u) ==
    /\ u \in DOMAIN uploads
    /\ uploads[u].pc = "add"
    /\ UploadCatch(u)
    /\ lastOp' = "add failed"
    /\ UNCHANGED <<service, loads, views>>
    /\ UNCHANGED <<started, fmtVars, chatVars>>

\* onClick of a row of the document list: viewDocumentDetails up to its await
ViewClick(i) ==
    /\ UserEvent
    /\ state.client
    /\ i \in DOMAIN state.documents
    /\ views' = Append(views, state.documents[i].path)
    /\ lastOp' = "none"
    /\ UNCHANGED <<state, service, loads, uploads>>
    /\ UNCHANGED <<fmtVars, chatVars>>

\* getInfo resolves
GetInfoResolves(v) ==
    /\ v \in DOMAIN views
    /\ state' = [state EXCEPT !.selectedDocument = Some(DocumentOf(views[v]))]
    /\ views' = RemoveAt(views, v)
    /\ lastOp' = "none"
    /\ UNCHANGED <<service, loads, uploads>>
    /\ UNCHANGED <<started, fmtVars, chatVars>>

\* getInfo rejects: the catch block of viewDocumentDetails
GetInfoFails(v) ==
    /\ v \in DOMAIN views
    /\ views' = RemoveAt(views, v)
    /\ lastOp' = "details failed"
    /\ UNCHANGED <<state, service, loads, uploads>>
    /\ UNCHANGED <<started, fmtVars, chatVars>>

\* onClick of the close button of the details
CloseDetails ==
    /\ UserEvent
    /\ state.selectedDocument.has
    /\ state' = [state EXCEPT !.selectedDocument = Absent]
    /\ lastOp' = "none"
    /\ UNCHANGED <<service, loads, uploads, views>>
    /\ UNCHANGED <<fmtVars, chatVars>>

ConsoleInit ==
    /\ ConsoleMounted(ServiceStates)
    /\ FormatIdle
    /\ ChatIdle

ConsoleNext ==
    \/ AuthenticateSucceeds
    \/ AuthenticateFails
    \/ \E text \in SearchTexts : ChangeSearch(text)
    \/ \E status \in StatusFilters : ChangeFilter(status)
    \/ ToggleSort
    \/ \E k \in DOMAIN loads : GetInfoListResolves(k)
    \/ \E k \in DOMAIN loads : GetInfoListFails(k)
    \/ \E fs \in FileSelections : SelectFiles(fs)
    \/ UploadClick
    \/ \E u \in DOMAIN uploads : \E outcome \in CreationOutcomes :
           CreateCollectionEnds(u, outcome)
    \/ \E u \in DOMAIN uploads : EncodeSucceeds(u)
    \/ \E u \in DOMAIN uploads : EncodeFails(u)
    \/ \E u \in DOMAIN uploads : AddResolves(u)
    \/ \E u \in DOMAIN uploads : AddFails(u)
    \/ \E i \in DOMAIN state.documents : ViewClick(i)
    \/ \E v \in DOMAIN views : GetInfoResolves(v)
    \/ \E v \in DOMAIN views : GetInfoFails(v)
    \/ CloseDetails

ConsoleSpec == ConsoleInit /\ [][ConsoleNext]_vars

----------------------------------------------------------------------------
(* Properties of formatResponse (checked under FormatSpec) *)

AllEmpty(a) == Len(a.documents) = 0 /\ Len(a.snippets) = 0 /\ OptLength(a.pages) = 0

\* the listing intent, as the specification words it
ListingIntent(q) ==
    LET lq == toLowerCase(q)
    IN  includes(lq, STR_show) /\ (includes(lq, STR_document) \/ includes(lq, STR_all))

PagesChoices == {Absent} \cup {Some(p) : p \in SeqsUpTo(Pages, MaxPages)}

\* C1: for a non-empty combination of result sets exactly one rule renders the
\* content, in the order listing > page > snippet: the listing rule iff the
\* lowercased query contains "show" and ("document" or "all"), and then the content
\* is the same whatever the snippets and pages are; otherwise the page rule iff
\* pages is non-empty; otherwise the snippet rule.
C1_RuleOrder ==
    (fDone /\ ~AllEmpty(fArgs)) =>
        /\ Head(fRes.content) \in {LISTING_HEADER[1], PAGES_HEADER[1], SNIPPETS_HEADER[1]}
        /\ (Head(fRes.content) = LISTING_HEADER[1]) <=> ListingIntent(fArgs.query)
        /\ (Head(fRes.content) = PAGES_HEADER[1]) <=>
               (~ListingIntent(fArgs.query) /\ OptLength(fArgs.pages) > 0)
        /\ (Head(fRes.content) = SNIPPETS_HEADER[1]) <=>
               (~ListingIntent(fArgs.query) /\ OptLength(fArgs.pages) = 0)
        /\ ListingIntent(fArgs.query) =>
               \A sn \in SeqsUpTo(Snippets, MaxSnippets), pg \in PagesChoices :
                   LET other == [fArgs EXCEPT !.snippets = sn, !.pages = pg]
                   IN  ~AllEmpty(other) => formatResponse(other).content = fRes.content
        /\ Head(fRes.content) = PAGES_HEADER[1] =>
               fRes.content = PAGES_HEADER \o PageBlocks(fArgs.pages.val, Len(fArgs.pages.val))
        /\ Head(fRes.content) = SNIPPETS_HEADER[1] =>
               fRes.content =
                   SNIPPETS_HEADER \o SnippetBlocks(fArgs.snippets, Len(fArgs.snippets))

\* a listing query formatted with non-empty snippets and pages: all three rules apply
C1_Witness ==
    /\ fDone
    /\ ListingIntent(fArgs.query)
    /\ Len(fArgs.snippets) > 0
    /\ OptLength(fArgs.pages) > 0
    /\ Head(fRes.content) = LISTING_HEADER[1]

\* C2: with no documents, no snippets and pages empty or absent, the result is the
\* fixed not-found message with an empty evidence list and nothing else, for every
\* query.
C2_EmptyIsTerminal ==
    (fDone /\ Len(fArgs.documents) = 0 /\ Len(fArgs.snippets) = 0
           /\ (~fArgs.pages.has \/ fArgs.pages.val = <<>>)) =>
        /\ fRes.content = NOT_FOUND
        /\ fRes.snippets = <<>>
        /\ DOMAIN fRes = {"content", "snippets"}

\* a listing query with empty documents and snippets and a requested, empty pages list
C2_Witness ==
    /\ fDone
    /\ ListingIntent(fArgs.query)
    /\ fArgs.documents = <<>> /\ fArgs.snippets = <<>>
    /\ fArgs.pages = Some(<<>>)
    /\ fRes.content = NOT_FOUND

\* the numbered lines of a listing: the four fragments after the header, line by line
ListedLine(content, k) == SubSeq(content, 4 * k - 2, 4 * k + 1)
ListedCount(content) == (Len(content) - 1) \div 4
FirstIndex(documents, path) ==
    CHOOSE i \in DOMAIN documents :
        documents[i].path = path /\ \A j \in 1..(i - 1) : documents[j].path # path

\* C3: under listing intent the rendered list holds each distinct path exactly once,
\* in the order of first occurrence, numbered from 1 ([a, b, a] gives "1. a", "2. b").
C3_ListingDedup ==
    (fDone /\ ListingIntent(fArgs.query) /\ ~AllEmpty(fArgs)) =>
        LET c == fRes.content
            n == ListedCount(c)
            docs == fArgs.documents
        IN  /\ Len(c) = 1 + 4 * n
            /\ \A k \in 1..n :
                   /\ ListedLine(c, k)[1] = ToString(k)
                   /\ ListedLine(c, k)[2] = ". **"
                   /\ ListedLine(c, k)[4] = "**\n"
                   /\ \E i \in DOMAIN docs : docs[i].path = ListedLine(c, k)[3]
            /\ \A i \in DOMAIN docs : \E k \in 1..n : ListedLine(c, k)[3] = docs[i].path
            /\ \A j, k \in 1..n :
                   j < k => /\ ListedLine(c, j)[3] # ListedLine(c, k)[3]
                            /\ FirstIndex(docs, ListedLine(c, j)[3])
                                   < FirstIndex(docs, ListedLine(c, k)[3])
            /\ docs = <<[path |-> "a"], [path |-> "b"], [path |-> "a"]>> =>
                   c = LISTING_HEADER \o <<"1", ". **", "a", "**\n", "2", ". **", "b", "**\n">>

\* the listing of [a, b, a]
C3_Witness ==
    /\ fDone
    /\ ListingIntent(fArgs.query)
    /\ fArgs.documents = <<[path |-> "a"], [path |-> "b"], [path |-> "a"]>>
    /\ ListedCount(fRes.content) = 2

----------------------------------------------------------------------------
(* Properties of the chat transcript (checked under Spec and LiveSpec) *)

LastMessage(ms) == ms[Len(ms)]
Appended(ms, ms2) == Len(ms2) = Len(ms) + 1 /\ SubSeq(ms2, 1, Len(ms)) = ms

\* a submit is followed by the effects of an accepted submit
SubmitAccepted ==
    /\ Appended(messages, messages')
    /\ LastMessage(messages').role = "user"
    /\ LastMessage(messages').content = input
    /\ input' = <<>>
    /\ isLoading'
    /\ Len(calls') = Len(calls) + 1

\* while a request is in flight the transcript changes only by the one assistant
\* message that ends the loading state, and the loading state ends only that way
OneAnswerPerRequest ==
    isLoading =>
        \/ messages' = messages /\ isLoading'
        \/ /\ Appended(messages, messages')
           /\ LastMessage(messages').role = "assistant"
           /\ ~isLoading'

\* the loading state is left; by OneAnswerPerRequest it is left by the step that
\* appends the one assistant message
AnswerFollows == isLoading ~> ~isLoading

BlankSubmitIgnored ==
    (lastEvent' = "submit" /\ trim(input) = <<>>) =>
        UNCHANGED <<messages, input, isLoading, calls>>

\* C4 as amended: every submit of non-empty, non-whitespace input with a client present
\* and no request in flight appends exactly one user message, clears the input and
\* enters the loading state, and is eventually followed by exactly one appended
\* assistant message and the exit from the loading state; a submit of empty or
\* whitespace-only input changes nothing.
C4_SubmitLifecycle ==
    /\ [][(lastEvent' = "submit" /\ trim(input) # <<>> /\ client /\ ~isLoading)
              => SubmitAccepted]_vars
    /\ [][OneAnswerPerRequest]_vars
    /\ [][BlankSubmitIgnored]_vars
    /\ AnswerFollows

\* C4 as stated: every submit of non-empty, non-whitespace input with no request in
\* flight is accepted.
C4_AsStated ==
    /\ [][(lastEvent' = "submit" /\ trim(input) # <<>> /\ ~isLoading)
              => SubmitAccepted]_vars
    /\ [][OneAnswerPerRequest]_vars
    /\ [][BlankSubmitIgnored]_vars
    /\ AnswerFollows

\* two requests have been answered, and a whitespace-only submit after them has run
\* and left the transcript as it was
C4_Witness ==
    /\ client
    /\ ~isLoading
    /\ Len(messages) = 5
    /\ LastMessage(messages).role = "assistant"
    /\ lastEvent = "submit"
    /\ input = <<" ", " ">>

\* C5: at most one processQuery invocation is pending at any time.
C5_OneInFlight == Len(calls) <= 1

\* a second request is in flight after the first one was answered
C5_Witness == Len(calls) = 1 /\ Len(messages) = 4 /\ isLoading

\* C6: when a retrieval call fails, the assistant message appended for the query is
\* the fixed error message with an empty evidence list, and the rest of the transcript
\* is unchanged.
C6_FixedErrorMessage ==
    [][lastEvent' = "error" =>
          /\ Appended(messages, messages')
          /\ LastMessage(messages') =
                 [id |-> LastMessage(messages').id, role |-> "assistant",
                  content |-> ERROR_MESSAGE, snippets |-> <<>>]]_vars

\* topPages has failed after topDocuments and topSnippets succeeded
C6_Witness ==
    /\ lastEvent = "error"
    /\ Len(messages) = 3
    /\ messages[2].content = Q_Page
    /\ LastMessage(messages).content = ERROR_MESSAGE

\* the number a message id spells
IdValue(id) == CHOOSE n \in 0..(MaxClock + 1) : ToString(n) = id

\* C7: message ids are pairwise distinct and strictly increasing in list order.
C7_IdsIncreasing ==
    \A i, j \in DOMAIN messages :
        i < j => /\ messages[i].id # messages[j].id
                 /\ IdValue(messages[i].id) < IdValue(messages[j].id)

\* the evidence fields of a message that hold something
EvidenceFields(m) ==
    {f \in DOMAIN m \ {"id", "role", "content"} : m[f] # <<>> /\ m[f] # Absent}

\* C8: the evidence attached to an assistant message is the evidence its content was
\* rendered from (the documents under listing intent, the pages under page intent,
\* the snippets otherwise), and no message changes once appended.
C8_EvidenceMatchesContent ==
    [][/\ \A i \in DOMAIN messages : i \in DOMAIN messages' /\ messages'[i] = messages[i]
       /\ (lastEvent' = "resolve" /\ Len(messages') > Len(messages)) =>
              LET m == LastMessage(messages')
                  call == calls[1]
              IN  /\ Head(m.content) = LISTING_HEADER[1] =>
                         /\ EvidenceFields(m) \subseteq {"documents"}
                         /\ call.documents # <<>> =>
                                "documents" \in DOMAIN m /\ m.documents = call.documents
                  /\ Head(m.content) = PAGES_HEADER[1] =>
                         EvidenceFields(m) = {"pages"}
                  /\ Head(m.content) = SNIPPETS_HEADER[1] =>
                         /\ EvidenceFields(m) \subseteq {"snippets"}
                         /\ m.content =
                                SNIPPETS_HEADER \o SnippetBlocks(m.snippets, Len(m.snippets))]_vars

----------------------------------------------------------------------------
(* Properties of the document console (checked under ConsoleSpec) *)

IsPrefix(p, seq) == Len(p) <= Len(seq) /\ p = SubSeq(seq, 1, Len(p))

UploadPaths(upload) == [i \in DOMAIN upload.files |-> PathOf(upload.files[i])]

\* the encode steps, the add calls and the completed add calls of an upload are
\* initial parts of the selection, each at most one file ahead of the next
InSelectionOrder(upload) ==
    /\ IsPrefix(upload.encoded, UploadPaths(upload))
    /\ IsPrefix(upload.started, UploadPaths(upload))
    /\ IsPrefix(upload.completed, UploadPaths(upload))
    /\ Len(upload.completed) <= Len(upload.started)
    /\ Len(upload.started) <= Len(upload.encoded)
    /\ Len(upload.encoded) <= Len(upload.completed) + 1
    /\ \A i \in DOMAIN upload.completed : upload.completed[i] \in service.docs

AfterCreation(upload) ==
    /\ upload.encoded # <<>> => upload.creation \in {"created", "already exists"}
    /\ (upload.creation = "already exists" /\ upload.pc = "failed") => upload.encoded # <<>>

\* C9: within one upload the files are processed one after the other in selection
\* order (no encode step and no add call of a file before the add call of the file
\* before it has completed), no file is processed before the collection was created
\* or found to exist, and after the first failure the upload does nothing more.
C9_SequentialUpload ==
    /\ [](\A u \in DOMAIN uploads : InSelectionOrder(uploads[u]) /\ AfterCreation(uploads[u]))
    /\ [][\A u \in DOMAIN uploads :
              uploads[u].pc = "failed" => uploads'[u] = uploads[u]]_vars

\* an upload of two files into an existing collection whose second add call failed
C9_Witness ==
    \E u \in DOMAIN uploads :
        /\ uploads[u].pc = "failed"
        /\ uploads[u].creation = "already exists"
        /\ Len(uploads[u].files) = 2
        /\ Len(uploads[u].started) = 2
        /\ Len(uploads[u].completed) = 1

FailureMessages == {AUTH_FAILED, LOAD_FAILED, UPLOAD_FAILED}

\* C10: the failure of an external call sets the fixed status message of its call
\* site (for the details call: one of the fixed failure messages), which no success
\* message replaces, and leaves the loading flag false where the operation sets it.
C10_FailuresReported ==
    [][/\ lastOp' = "authenticate failed" => state'.message = AUTH_FAILED
       /\ lastOp' = "load failed" => state'.message = LOAD_FAILED /\ ~state'.loading
       /\ lastOp' \in {"create failed", "encode failed", "add failed"} =>
              state'.message = UPLOAD_FAILED /\ ~state'.loading
       /\ lastOp' = "details failed" => state'.message \in FailureMessages]_vars

\* the list loadDocuments would compute now: the documents of the service filtered
\* and sorted by the settings of the current render
CurrentList == FilteredDocs({DocumentOf(p) : p \in service.docs}, Settings(state))

\* the step in which the only loadDocuments call in flight ends in its try block
LastLoadSucceeds == Len(loads) = 1 /\ loads' = <<>> /\ lastOp' = "none"

\* C11: when the last loadDocuments call in flight ends with success, the displayed
\* list is the service's documents filtered and sorted by the current search text,
\* status filter and sort order, whatever the order the responses arrived in.
C11_ListMatchesCurrentSettings ==
    [][LastLoadSucceeds => state'.documents = CurrentList']_vars

====
